---- MODULE Spec2Model ----
(***************************************************************************)
(* Model of src/files-managment/organizar.py: a file organiser that plans  *)
(* the relocation of the direct children of one directory into category    *)
(* subdirectories chosen by file extension, and applies the plan (or only  *)
(* previews it with --dry-run).                                            *)
(*                                                                         *)
(* Strings are sequences of one-character strings, so that lower(), the    *)
(* stem/suffix split of pathlib and the " (n)" renaming are computed as    *)
(* the code computes them.  A path is a sequence of names starting at the  *)
(* filesystem root <<>>; the filesystem is a function from the existing    *)
(* paths to their entries (a directory, or a file with a content).         *)
(* Symbolic links and case-insensitive filesystems are not modelled.       *)
(***************************************************************************)
EXTENDS Integers, Sequences, FiniteSets, TLC

VARIABLES
  fs,             \* the filesystem: existing path -> entry
  pc,             \* position of main(): "start", "apply", "done", "invalid", "failed"
  dry_run,        \* args.dry_run
  include_hidden, \* args.include_hidden
  plans,          \* the list built by build_move_plan_for_directory
  idx,            \* index in plans of the next item of apply_move_plan's loop
  moved_count,    \* apply_move_plan's counter
  per_category,   \* apply_move_plan's dict: category -> count
  result,         \* what apply_move_plan returned, or NoResult
  run,            \* number of the current invocation of main()
  fs0,            \* history: the filesystem when the current invocation started
  prev,           \* history: summary of the previous invocation, or NoPrev
  nexternal,      \* history: number of external modifications so far
  extension,      \* input of infer_category_from_extension (SpecClassify)
  category,       \* its result, or NoResult
  proposed,       \* input of generate_unique_destination_path (SpecResolve)
  unique          \* its result, or NoResult

vars == <<fs, pc, dry_run, include_hidden, plans, idx, moved_count,
          per_category, result, run, fs0, prev, nexternal,
          extension, category, proposed, unique>>

mainVars == <<pc, dry_run, include_hidden, plans, idx, moved_count,
              per_category, result, run, fs0, prev, nexternal>>

----------------------------------------------------------------------------
(* Bounds of the model *)

\* at most this many files are direct children of the target at the start
MaxFiles == 2

\* main() is invoked at most this many times in a row
MaxRuns == 2

\* at most this many planned sources vanish behind the program's back
MaxExternal == 1

----------------------------------------------------------------------------
(* Category rules *)

CATEGORIES ==
  <<
  [name |-> <<"I","m","a","g","e","n","e","s">>,
   exts |-> <<
      <<".","p","n","g">>, <<".","j","p","g">>, <<".","j","p","e","g">>,
      <<".","g","i","f">>, <<".","b","m","p">>, <<".","t","i","f","f">>,
      <<".","w","e","b","p">>, <<".","s","v","g">>, <<".","h","e","i","c">>,
      <<".","a","v","i","f">>>>],
  [name |-> <<"D","o","c","u","m","e","n","t","o","s">>,
   exts |-> <<
      <<".","p","d","f">>, <<".","d","o","c">>, <<".","d","o","c","x">>,
      <<".","t","x","t">>, <<".","r","t","f">>, <<".","m","d">>,
      <<".","x","l","s">>, <<".","x","l","s","x">>, <<".","p","p","t">>,
      <<".","p","p","t","x">>, <<".","c","s","v">>, <<".","o","d","t">>,
      <<".","o","d","s">>, <<".","o","d","p">>>>],
  [name |-> <<"V","i","d","e","o","s">>,
   exts |-> <<
      <<".","m","p","4">>, <<".","m","k","v">>, <<".","m","o","v">>,
      <<".","a","v","i">>, <<".","w","m","v">>, <<".","f","l","v">>,
      <<".","w","e","b","m">>, <<".","m","4","v">>>>],
  [name |-> <<"A","u","d","i","o">>,
   exts |-> <<
      <<".","m","p","3">>, <<".","w","a","v">>, <<".","f","l","a","c">>,
      <<".","a","a","c">>, <<".","o","g","g">>, <<".","m","4","a">>,
      <<".","w","m","a">>>>],
  [name |-> <<"C","o","m","p","r","i","m","i","d","o","s">>,
   exts |-> <<
      <<".","z","i","p">>, <<".","r","a","r">>, <<".","7","z">>,
      <<".","t","a","r">>, <<".","g","z">>, <<".","b","z","2">>,
      <<".","x","z">>, <<".","t","a","r",".","g","z">>,
      <<".","t","a","r",".","b","z","2">>, <<".","t","a","r",".","x","z">>>>],
  [name |-> <<"I","n","s","t","a","l","a","d","o","r","e","s">>,
   exts |-> <<
      <<".","e","x","e">>, <<".","m","s","i">>, <<".","p","k","g">>,
      <<".","d","m","g">>>>],
  [name |-> <<"C","o","d","i","g","o">>,
   exts |-> <<
      <<".","p","y">>, <<".","i","p","y","n","b">>, <<".","j","s">>,
      <<".","t","s">>, <<".","t","s","x">>, <<".","j","s","x">>,
      <<".","j","a","v","a">>, <<".","c">>, <<".","h">>, <<".","c","p","p">>,
      <<".","h","p","p">>, <<".","c","s">>, <<".","r","b">>, <<".","g","o">>,
      <<".","p","h","p">>, <<".","s","h">>, <<".","b","a","t">>,
      <<".","p","s","1">>, <<".","h","t","m","l">>, <<".","c","s","s">>,
      <<".","s","c","s","s">>, <<".","j","s","o","n">>, <<".","y","m","l">>,
      <<".","y","a","m","l">>, <<".","x","m","l">>, <<".","t","o","m","l">>,
      <<".","i","n","i">>, <<".","c","f","g">>>>]
  >>

DEFAULT_OTHER_CATEGORY == <<"O","t","r","o","s">>

NoResult == <<"none">>

NoPrev == [pc |-> "none"]

(* str.lower() on the ASCII letters *)
UpperLetters ==
  <<"A","B","C","D","E","F","G","H","I","J","K","L","M",
    "N","O","P","Q","R","S","T","U","V","W","X","Y","Z">>

LowerLetters ==
  <<"a","b","c","d","e","f","g","h","i","j","k","l","m",
    "n","o","p","q","r","s","t","u","v","w","x","y","z">>

LowerChar(c) ==
  IF \E i \in DOMAIN UpperLetters : UpperLetters[i] = c
  THEN LowerLetters[CHOOSE i \in DOMAIN UpperLetters : UpperLetters[i] = c]
  ELSE c

UpperChar(c) ==
  IF \E i \in DOMAIN LowerLetters : LowerLetters[i] = c
  THEN UpperLetters[CHOOSE i \in DOMAIN LowerLetters : LowerLetters[i] = c]
  ELSE c

lower(s) == [i \in DOMAIN s |-> LowerChar(s[i])]

(* x in list *)
InList(x, list) == \E i \in DOMAIN list : list[i] = x

(* The for loop of infer_category_from_extension over CATEGORIES.items(),  *)
(* from table position k on: the first category whose list has the         *)
(* extension wins.                                                         *)
RECURSIVE FirstMatch(_, _)
FirstMatch(lower_extension, k) ==
  IF k > Len(CATEGORIES) THEN DEFAULT_OTHER_CATEGORY
  ELSE IF InList(lower_extension, CATEGORIES[k].exts) THEN CATEGORIES[k].name
  ELSE FirstMatch(lower_extension, k + 1)

infer_category_from_extension_nolower(ext) == FirstMatch(ext, 1)

infer_category_from_extension(ext) == FirstMatch(lower(ext), 1)

----------------------------------------------------------------------------
(* pathlib: names and paths *)

Name(path) == path[Len(path)]

Parent(path) == SubSeq(path, 1, Len(path) - 1)

(* name.rfind("."), 1-based; 0 when there is no dot *)
RFindDot(name) ==
  IF \E i \in DOMAIN name : name[i] = "."
  THEN CHOOSE i \in DOMAIN name :
         name[i] = "." /\ \A j \in DOMAIN name : name[j] = "." => j <= i
  ELSE 0

(* PurePath.suffix: the last dot and what follows it, unless that dot is   *)
(* the first or the last character of the name                             *)
Suffix(name) ==
  LET i == RFindDot(name)
  IN  IF 1 < i /\ i < Len(name) THEN SubSeq(name, i, Len(name)) ELSE <<>>

(* PurePath.stem *)
Stem(name) ==
  LET i == RFindDot(name)
  IN  IF 1 < i /\ i < Len(name) THEN SubSeq(name, 1, i - 1) ELSE name

(* name.startswith(".") *)
is_hidden_file(path) == Len(Name(path)) > 0 /\ Name(path)[1] = "."

Digits == <<"0","1","2","3","4","5","6","7","8","9">>

(* str(n) for n >= 0 *)
RECURSIVE IntToStr(_)
IntToStr(n) ==
  IF n < 10 THEN <<Digits[n + 1]>>
  ELSE IntToStr(n \div 10) \o <<Digits[(n % 10) + 1]>>

----------------------------------------------------------------------------
(* The filesystem *)

Dir == [kind |-> "dir"]

File(c) == [kind |-> "file", content |-> c]

Exists(f, path) == path \in DOMAIN f

IsDir(f, path) == path \in DOMAIN f /\ f[path].kind = "dir"

IsFile(f, path) == path \in DOMAIN f /\ f[path].kind = "file"

(* directory.iterdir(): the direct children *)
Children(f, directory) ==
  {p \in DOMAIN f : Len(p) = Len(directory) + 1 /\ Parent(p) = directory}

IsPrefix(a, p) == Len(a) <= Len(p) /\ SubSeq(p, 1, Len(a)) = a

Files(f) == {p \in DOMAIN f : f[p].kind = "file"}

Dirs(f) == {p \in DOMAIN f : f[p].kind = "dir"}

Remove(f, path) == [q \in DOMAIN f \ {path} |-> f[q]]

(* Path.mkdir(parents=True, exist_ok=True): creates the missing ancestors  *)
(* first; fails when the path or an ancestor is a file.                    *)
RECURSIVE Mkdir(_, _)
Mkdir(f, path) ==
  IF Exists(f, path) THEN [ok |-> IsDir(f, path), fs |-> f]
  ELSE LET up == Mkdir(f, Parent(path))
       IN  IF up.ok THEN [ok |-> TRUE, fs |-> (path :> Dir) @@ up.fs]
           ELSE [ok |-> FALSE, fs |-> f]

ensure_directory(f, path) ==
  IF ~Exists(f, path) THEN Mkdir(f, path) ELSE [ok |-> TRUE, fs |-> f]

(* os.rename of src (a file or a directory with what is below it) to dst,  *)
(* replacing a file that is at dst.                                        *)
Renamed(f, src, dst) ==
  LET under == {p \in DOMAIN f : IsPrefix(src, p)}
      below == {p \in DOMAIN f : IsPrefix(dst, p)}
      rest  == DOMAIN f \ (under \cup below)
      Rest(p) == SubSeq(p, Len(src) + 1, Len(p))
      new   == {dst \o Rest(p) : p \in under}
  IN  [q \in rest \cup new |->
         IF q \in new THEN f[src \o SubSeq(q, Len(dst) + 1, Len(q))] ELSE f[q]]

(* shutil.move(src, dst): into dst when dst is a directory, else a rename; *)
(* it raises when the source is missing, when the parent of the            *)
(* destination is not a directory, or when the name is taken inside a      *)
(* destination directory.  A move that raises changes nothing.             *)
shutil_move(f, src, dst) ==
  LET real_dst == IF IsDir(f, dst) THEN Append(dst, Name(src)) ELSE dst
  IN  IF \/ ~Exists(f, src)
         \/ ~IsDir(f, Parent(real_dst))
         \/ IsDir(f, dst) /\ Exists(f, real_dst)
         \/ IsPrefix(src, real_dst)
      THEN [ok |-> FALSE, fs |-> f]
      ELSE [ok |-> TRUE, fs |-> Renamed(f, src, real_dst)]

----------------------------------------------------------------------------
(* Destination resolver *)

CandidateName(stem, counter, suffix) ==
  stem \o <<" ", "(">> \o IntToStr(counter) \o <<")">> \o suffix

(* the while loop of generate_unique_destination_path, from counter on *)
RECURSIVE FirstFree(_, _, _, _, _)
FirstFree(f, parent, stem, suffix, counter) ==
  LET candidate == Append(parent, CandidateName(stem, counter, suffix))
  IN  IF ~Exists(f, candidate) THEN candidate
      ELSE FirstFree(f, parent, stem, suffix, counter + 1)

generate_unique_destination_path_from0(f, destination) ==
  FirstFree(f, Parent(destination), Stem(Name(destination)),
            Suffix(Name(destination)), 0)

generate_unique_destination_path_same(f, destination) == destination

generate_unique_destination_path(f, destination) ==
  IF ~Exists(f, destination) THEN destination
  ELSE FirstFree(f, Parent(destination), Stem(Name(destination)),
                 Suffix(Name(destination)), 1)

----------------------------------------------------------------------------
(* Plan builder *)

MovePlan(source, destination, cat) ==
  [source |-> source, destination |-> destination, category |-> cat]

(* the two "continue" tests of the loop of build_move_plan_for_directory *)
ShouldIncludeWithDirs(f, child, hidden) ==
  hidden \/ ~is_hidden_file(child)

ShouldIncludeHidden(f, child, hidden) == ~IsDir(f, child)

ShouldInclude(f, child, hidden) ==
  /\ ~IsDir(f, child)
  /\ hidden \/ ~is_hidden_file(child)

(* the plan item the loop appends for one child *)
PlanItem(directory, child) ==
  LET file_extension == lower(Suffix(Name(child)))
      cat == infer_category_from_extension(file_extension)
      destination_dir == Append(directory, cat)
  IN  MovePlan(child, Append(destination_dir, Name(child)), cat)

Orders(S) ==
  {s \in [1..Cardinality(S) -> S] : \A i, j \in DOMAIN s : s[i] = s[j] => i = j}

TargetValidExistsOnly(f, directory) == Exists(f, directory)

(* line 157: directory.exists() and directory.is_dir() *)
TargetValid(f, directory) == Exists(f, directory) /\ IsDir(f, directory)

(* The lists build_move_plan_for_directory can return: one item per        *)
(* included child, in the order iterdir() yields them, which is any order. *)
build_move_plan_for_directory(f, directory, hidden) ==
  LET included == {c \in Children(f, directory) : ShouldInclude(f, c, hidden)}
  IN  {[i \in DOMAIN order |-> PlanItem(directory, order[i])] :
         order \in Orders(included)}

----------------------------------------------------------------------------
(* The filesystems main() is started on *)

Root == <<>>

Target == << <<"T">> >>

N_png  == <<"a",".","p","n","g">>
N_pdf  == <<"r",".","p","d","f">>
N_pdf1 == <<"r"," ","(","1",")",".","p","d","f">>
N_pdf2 == <<"r"," ","(","2",")",".","p","d","f">>
N_env  == <<".","e","n","v">>
N_tgz  == <<"b",".","t","a","r",".","g","z">>
N_TXT  == <<"N",".","T","X","T">>
N_sub  == <<"s","u","b">>

C_Imagenes    == <<"I","m","a","g","e","n","e","s">>
C_Documentos  == <<"D","o","c","u","m","e","n","t","o","s">>
C_Comprimidos == <<"C","o","m","p","r","i","m","i","d","o","s">>
C_Codigo      == <<"C","o","d","i","g","o">>

(* the five files of the end-to-end scenario *)
N_photo   == <<"p","h","o","t","o",".","p","n","g">>
N_notes   == <<"n","o","t","e","s",".","t","x","t">>
N_archive == <<"a","r","c","h","i","v","e",".","t","a","r",".","g","z">>
N_script  == <<"s","c","r","i","p","t",".","p","y">>
N_unknown == <<"u","n","k","n","o","w","n","f","i","l","e",".","x","y","z">>

ScenarioNames == {N_photo, N_notes, N_archive, N_script, N_unknown}

(* names of the files that may be direct children of the target; one of    *)
(* them has no extension and is named like a category                      *)
TopNames == {N_png, N_pdf, N_pdf1, N_env, N_tgz, N_TXT, C_Documentos}

(* names of the files that may already be in the Documentos subdirectory *)
DocNames == {N_pdf, N_pdf1}

(* a filesystem with the given directories and files; the content of a     *)
(* file is named after the path it starts at                               *)
MakeFs(dirs, files) ==
  [p \in dirs \cup files |-> IF p \in dirs THEN Dir ELSE File(p)]

(* what may already be in the Documentos subdirectory, given the files at  *)
(* the top: nothing at all ("absent") when one of them has that name       *)
DocsFor(top) ==
  IF C_Documentos \in top THEN {{"absent"}}
  ELSE (SUBSET DocNames) \cup {{"absent"}}

FsOf(top, sub, docs) ==
  MakeFs({Root, Target}
           \cup (IF sub THEN {Append(Target, N_sub)} ELSE {})
           \cup (IF docs = {"absent"} THEN {} ELSE {Append(Target, C_Documentos)}),
         {Append(Target, n) : n \in top}
           \cup (IF sub THEN {Append(Append(Target, N_sub), N_pdf)} ELSE {})
           \cup (IF docs = {"absent"} THEN {}
                 ELSE {Append(Append(Target, C_Documentos), n) : n \in docs}))

ValidFilesystems ==
  UNION {{FsOf(top, sub, docs) : sub \in BOOLEAN, docs \in DocsFor(top)} :
           top \in {t \in SUBSET TopNames : Cardinality(t) <= MaxFiles}}

ScenarioFs == MakeFs({Root, Target}, {Append(Target, n) : n \in ScenarioNames})

InvalidFilesystems == {MakeFs({Root}, {}), MakeFs({Root}, {Target})}

EmptyCount == [c \in {} |-> 0]

(* main() has not started; the pure functions have no input *)
Fresh ==
  /\ plans = <<>>
  /\ idx = 1
  /\ moved_count = 0
  /\ per_category = EmptyCount
  /\ result = NoResult
  /\ fs0 = fs
  /\ prev = NoPrev

(* Either any of the small filesystems, with any flags and reruns; or the  *)
(* five files of the end-to-end scenario, organised live in the last run.  *)
Init ==
  /\ \/ /\ fs \in ValidFilesystems \cup InvalidFilesystems
        /\ dry_run \in BOOLEAN
        /\ run = 1
        /\ nexternal = 0
     \/ /\ fs = ScenarioFs
        /\ dry_run = FALSE
        /\ run = MaxRuns
        /\ nexternal = 0
  /\ pc = "start"
  /\ include_hidden \in BOOLEAN
  /\ Fresh
  /\ extension = NoResult
  /\ category = NoResult
  /\ proposed = NoResult
  /\ unique = NoResult
  /\ extension = NoResult
  /\ category = NoResult
  /\ proposed = NoResult
  /\ unique = NoResult

----------------------------------------------------------------------------
(* main() *)

(* main, line 253: build_move_plan_for_directory raises ValueError on an   *)
(* invalid target; otherwise it returns the plan and apply_move_plan       *)
(* starts (lines 202-203).                                                 *)
Build ==
  /\ pc = "start"
  /\ IF ~TargetValid(fs, Target)
     THEN /\ pc' = "invalid"
          /\ plans' = <<>>
     ELSE /\ pc' = "apply"
          /\ plans' \in build_move_plan_for_directory(fs, Target, include_hidden)
  /\ idx' = 1
  /\ moved_count' = 0
  /\ per_category' = EmptyCount
  /\ UNCHANGED <<fs, dry_run, include_hidden, result, run, fs0, prev, nexternal,
                 extension, category, proposed, unique>>

TallyOverwrite(counts, c) == (c :> 1) @@ counts

(* per_category[c] = per_category.get(c, 0) + 1 *)
Tally(counts, c) ==
  IF c \in DOMAIN counts THEN [counts EXCEPT ![c] = @ + 1]
  ELSE (c :> 1) @@ counts

(* the loop with a failed move skipped instead of raised *)
ApplyItemContinue ==
  /\ pc = "apply"
  /\ idx <= Len(plans)
  /\ LET plan == plans[idx]
         made == ensure_directory(fs, Parent(plan.destination))
         unique_destination ==
           generate_unique_destination_path(made.fs, plan.destination)
         moved == shutil_move(made.fs, plan.source, unique_destination)
     IN  IF ~made.ok
         THEN /\ fs' = made.fs
              /\ pc' = "failed"
              /\ UNCHANGED <<idx, moved_count, per_category>>
         ELSE IF dry_run
         THEN /\ fs' = made.fs
              /\ idx' = idx + 1
              /\ UNCHANGED <<pc, moved_count, per_category>>
         ELSE IF moved.ok
         THEN /\ fs' = moved.fs
              /\ idx' = idx + 1
              /\ moved_count' = moved_count + 1
              /\ per_category' = Tally(per_category, plan.category)
              /\ pc' = pc
         ELSE /\ fs' = moved.fs
              /\ idx' = idx + 1
              /\ UNCHANGED <<pc, moved_count, per_category>>
  /\ UNCHANGED <<dry_run, include_hidden, plans, result, run, fs0, prev,
                 nexternal, extension, category, proposed, unique>>

(* one iteration of the loop of apply_move_plan, lines 205-214 *)
ApplyItem ==
  /\ pc = "apply"
  /\ idx <= Len(plans)
  /\ LET plan == plans[idx]
         made == ensure_directory(fs, Parent(plan.destination))
         unique_destination ==
           generate_unique_destination_path(made.fs, plan.destination)
         moved == shutil_move(made.fs, plan.source, unique_destination)
     IN  IF ~made.ok
         THEN /\ fs' = made.fs
              /\ pc' = "failed"
              /\ UNCHANGED <<idx, moved_count, per_category>>
         ELSE IF dry_run
         THEN /\ fs' = made.fs
              /\ idx' = idx + 1
              /\ UNCHANGED <<pc, moved_count, per_category>>
         ELSE IF moved.ok
         THEN /\ fs' = moved.fs
              /\ idx' = idx + 1
              /\ moved_count' = moved_count + 1
              /\ per_category' = Tally(per_category, plan.category)
              /\ pc' = pc
         ELSE /\ fs' = moved.fs
              /\ pc' = "failed"
              /\ UNCHANGED <<idx, moved_count, per_category>>
  /\ UNCHANGED <<dry_run, include_hidden, plans, result, run, fs0, prev,
                 nexternal, extension, category, proposed, unique>>

(* apply_move_plan, line 216: the loop is over, the counts are returned *)
Return ==
  /\ pc = "apply"
  /\ idx > Len(plans)
  /\ pc' = "done"
  /\ result' = <<moved_count, per_category>>
  /\ UNCHANGED <<fs, dry_run, include_hidden, plans, idx, moved_count,
                 per_category, run, fs0, prev, nexternal,
                 extension, category, proposed, unique>>

(* The environment: a source that is planned and not yet processed         *)
(* vanishes between planning and its move.                                 *)
ExternalRemove ==
  /\ pc = "apply"
  /\ nexternal < MaxExternal
  /\ \E j \in idx..Len(plans) :
       /\ Exists(fs, plans[j].source)
       /\ fs' = Remove(fs, plans[j].source)
  /\ nexternal' = nexternal + 1
  /\ UNCHANGED <<pc, dry_run, include_hidden, plans, idx, moved_count,
                 per_category, result, run, fs0, prev,
                 extension, category, proposed, unique>>

PlanSet(p) == {p[i] : i \in DOMAIN p}

(* The program is run again on the same target with the same               *)
(* --include-hidden, with or without --dry-run.                            *)
Start ==
  /\ pc \in {"done", "failed", "invalid"}
  /\ run < MaxRuns
  /\ run' = run + 1
  /\ prev' = [pc |-> pc, dry_run |-> dry_run, plan |-> PlanSet(plans),
              moved_count |-> moved_count]
  /\ pc' = "start"
  /\ dry_run' \in BOOLEAN
  /\ plans' = <<>>
  /\ idx' = 1
  /\ moved_count' = 0
  /\ per_category' = EmptyCount
  /\ result' = NoResult
  /\ fs0' = fs
  /\ UNCHANGED <<fs, include_hidden, nexternal,
                 extension, category, proposed, unique>>

Next == Build \/ ApplyItem \/ Return \/ ExternalRemove \/ Start

Spec == Init /\ [][Next]_vars

----------------------------------------------------------------------------
(* infer_category_from_extension on its own *)

(* every way of writing s in upper and lower case *)
RECURSIVE CaseVariants(_)
CaseVariants(s) ==
  IF s = <<>> THEN {<<>>}
  ELSE {<<c>> \o t : c \in {LowerChar(s[1]), UpperChar(s[1])},
                     t \in CaseVariants(Tail(s))}

TableExtensions ==
  UNION {{CATEGORIES[k].exts[j] : j \in DOMAIN CATEGORIES[k].exts} :
           k \in DOMAIN CATEGORIES}

(* extensions of no category: none, unknown ones, near misses *)
OtherExtensions ==
  {<<>>, <<".">>, <<".","x","y","z">>, <<".","X","Y","Z">>, <<"p","n","g">>,
   <<".","p","n">>, <<".","p","n","g","x">>, <<".","t","a","r",".">>,
   <<".","e","n","v">>, <<".","1">>}

ExtensionInputs ==
  (UNION {CaseVariants(e) : e \in TableExtensions}) \cup OtherExtensions

InitClassify ==
  /\ fs = MakeFs({Root}, {})
  /\ pc = "pure"
  /\ dry_run = FALSE
  /\ include_hidden = FALSE
  /\ run = 1
  /\ nexternal = 0
  /\ Fresh
  /\ extension \in ExtensionInputs
  /\ category = NoResult
  /\ proposed = NoResult
  /\ unique = NoResult

Classify ==
  /\ extension # NoResult
  /\ category = NoResult
  /\ category' = infer_category_from_extension(extension)
  /\ UNCHANGED <<fs, mainVars, extension, proposed, unique>>

SpecClassify == InitClassify /\ [][Classify]_vars

----------------------------------------------------------------------------
(* generate_unique_destination_path on its own *)

N_pdf3  == <<"r"," ","(","3",")",".","p","d","f">>
N_env1  == <<".","e","n","v"," ","(","1",")">>
N_tgz1  == <<"b",".","t","a","r"," ","(","1",")",".","g","z">>
N_pdf11 == <<"r"," ","(","1",")"," ","(","1",")",".","p","d","f">>

(* names that may exist in the directory the resolver looks at *)
ResolveNames == {N_pdf, N_pdf1, N_pdf2, N_pdf3, N_env, N_env1, N_tgz, N_tgz1, N_pdf11}

(* names the resolver is asked about *)
ProposedNames == {N_pdf, N_pdf1, N_env, N_tgz, N_TXT}

DocDir == Append(Target, C_Documentos)

InitResolve ==
  /\ \E present \in SUBSET ResolveNames :
       fs = MakeFs({Root, Target, DocDir}, {Append(DocDir, n) : n \in present})
  /\ pc = "pure"
  /\ dry_run = FALSE
  /\ include_hidden = FALSE
  /\ run = 1
  /\ nexternal = 0
  /\ Fresh
  /\ extension = NoResult
  /\ category = NoResult
  /\ proposed \in {Append(DocDir, n) : n \in ProposedNames}
  /\ unique = NoResult

Resolve ==
  /\ proposed # NoResult
  /\ unique = NoResult
  /\ unique' = generate_unique_destination_path(fs, proposed)
  /\ UNCHANGED <<fs, mainVars, extension, category, proposed>>

SpecResolve == InitResolve /\ [][Resolve]_vars

----------------------------------------------------------------------------
(* Properties *)

InRun == pc \in {"apply", "done", "failed"}

(* the content the file planned as item i had when the run started *)
ContentOf(i) == fs0[plans[i].source]

(* the paths where that content is now *)
Holders(i) == {p \in Files(fs) : fs[p] = ContentOf(i)}

Processed == 1..(idx - 1)

Pending == idx..Len(plans)

(* C1: apply_move_plan with dry_run=True performs no filesystem mutation:  *)
(* the files and the directories, category subdirectories included, are    *)
(* after the call (and all along it) the ones before it.                   *)
C1_DryRunNoMutation ==
  (dry_run /\ nexternal = 0 /\ pc \in {"apply", "done"})
    => (Files(fs) = Files(fs0) /\ Dirs(fs) = Dirs(fs0))

(* the parts of the statement of C2 *)
C2_MoveStep ==
  (pc = "apply" /\ ~dry_run /\ moved_count' = moved_count + 1)
    => /\ \A p \in DOMAIN fs :
            ~IsPrefix(plans[idx].source, p)
              => (p \in DOMAIN fs' /\ fs'[p] = fs[p])
       /\ \E d \in DOMAIN fs' \ DOMAIN fs : fs'[d] = fs[plans[idx].source]

C2_Kept ==
  (~dry_run /\ InRun)
    => /\ \A p \in Files(fs0) :
            Len(p) > Len(Target) + 1 => (IsFile(fs, p) /\ fs[p] = fs0[p])
       /\ nexternal = 0
            => \A i \in Processed :
                 /\ Cardinality(Holders(i)) = 1
                 /\ Holders(i) \cap DOMAIN fs0 = {}

(* C2: in a live run no existing file is overwritten.  Every move leaves   *)
(* every entry outside its source where and what it was, and puts the      *)
(* source at a path that did not exist before the move; so what was in a   *)
(* subdirectory before the run is still there unchanged, and (nothing      *)
(* else touching the directory) every moved item sits alone at a path      *)
(* that is new.                                                            *)
C2_NoOverwrite == [](C2_Kept) /\ [][C2_MoveStep]_vars

C2_Witness ==
  /\ pc = "done" /\ ~dry_run /\ moved_count = 2
  /\ Append(DocDir, N_pdf) \in Files(fs0)
  /\ IsFile(fs, Append(DocDir, N_pdf1))
  /\ fs[Append(DocDir, N_pdf1)] = File(Append(Target, N_pdf))
  /\ IsFile(fs, Append(DocDir, N_pdf11))
  /\ fs[Append(DocDir, N_pdf11)] = File(Append(Target, N_pdf1))

(* the parts of the statement of C3 *)
C3_Candidate(n) ==
  Append(Parent(proposed),
         CandidateName(Stem(Name(proposed)), n, Suffix(Name(proposed))))

C3_Examples ==
  /\ (proposed = Append(DocDir, N_pdf) /\ Exists(fs, Append(DocDir, N_pdf))
        /\ ~Exists(fs, Append(DocDir, N_pdf1)))
       => unique = Append(DocDir, N_pdf1)
  /\ (proposed = Append(DocDir, N_pdf) /\ Exists(fs, Append(DocDir, N_pdf))
        /\ Exists(fs, Append(DocDir, N_pdf1)) /\ ~Exists(fs, Append(DocDir, N_pdf2)))
       => unique = Append(DocDir, N_pdf2)
  /\ (proposed = Append(DocDir, N_env) /\ Exists(fs, Append(DocDir, N_env))
        /\ ~Exists(fs, Append(DocDir, N_env1)))
       => unique = Append(DocDir, N_env1)
  /\ (proposed = Append(DocDir, N_tgz) /\ Exists(fs, Append(DocDir, N_tgz))
        /\ ~Exists(fs, Append(DocDir, N_tgz1)))
       => unique = Append(DocDir, N_tgz1)
  /\ (proposed = Append(DocDir, N_pdf1) /\ Exists(fs, Append(DocDir, N_pdf1))
        /\ ~Exists(fs, Append(DocDir, N_pdf11)))
       => unique = Append(DocDir, N_pdf11)

(* C3: generate_unique_destination_path(p) is p when p does not exist;     *)
(* otherwise "stem (n)suffix" beside p for the smallest n >= 1 that does   *)
(* not exist.  The result never exists.                                    *)
C3_UniqueDestination ==
  unique # NoResult
    => /\ ~Exists(fs, unique)
       /\ ~Exists(fs, proposed) => unique = proposed
       /\ Exists(fs, proposed)
            => \E n \in 1..Cardinality(DOMAIN fs) :
                 /\ unique = C3_Candidate(n)
                 /\ \A m \in 1..(n - 1) : Exists(fs, C3_Candidate(m))
       /\ C3_Examples

C3_Witness ==
  /\ proposed = Append(DocDir, N_pdf)
  /\ Exists(fs, Append(DocDir, N_pdf))
  /\ Exists(fs, Append(DocDir, N_pdf1))
  /\ unique = Append(DocDir, N_pdf2)

(* the parts of the statement of C4 *)
NoCollision == \A i \in DOMAIN plans : ~Exists(fs0, plans[i].destination)

ItemsOf(c) == {i \in DOMAIN plans : plans[i].category = c}

RECURSIVE SumOver(_, _)
SumOver(counts, keys) ==
  IF keys = {} THEN 0
  ELSE LET k == CHOOSE x \in keys : TRUE
       IN  counts[k] + SumOver(counts, keys \ {k})

(* C4: after a live run with no name collision and no failure, on a        *)
(* directory that nothing else modifies meanwhile, every                   *)
(* planned file has left the target directory and is at                    *)
(* target/category/name; movedCount is the number of plan items, each      *)
(* category's count is the number of items of that category, and the       *)
(* counts sum to movedCount.                                               *)
C4_LiveRun ==
  (pc = "done" /\ ~dry_run /\ NoCollision /\ nexternal = 0)
    => /\ \A i \in DOMAIN plans :
            /\ ~(IsFile(fs, plans[i].source) /\ fs[plans[i].source] = ContentOf(i))
            /\ Holders(i) =
                 {Append(Append(Target, plans[i].category), Name(plans[i].source))}
       /\ result[1] = Len(plans)
       /\ DOMAIN result[2] = {plans[i].category : i \in DOMAIN plans}
       /\ \A c \in DOMAIN result[2] : result[2][c] = Cardinality(ItemsOf(c))
       /\ SumOver(result[2], DOMAIN result[2]) = result[1]

C4_Witness ==
  /\ pc = "done"
  /\ fs0 = ScenarioFs
  /\ Files(fs) = {Append(Append(Target, C_Imagenes), N_photo),
                  Append(Append(Target, C_Documentos), N_notes),
                  Append(Append(Target, C_Comprimidos), N_archive),
                  Append(Append(Target, C_Codigo), N_script),
                  Append(Append(Target, DEFAULT_OTHER_CATEGORY), N_unknown)}
  /\ result = <<5, [c \in {C_Imagenes, C_Documentos, C_Comprimidos, C_Codigo,
                           DEFAULT_OTHER_CATEGORY} |-> 1]>>

(* C5: a dry run repeated on a directory nothing else modifies plans the   *)
(* same set of (source, destination, category) triples as the first.       *)
C5_DryRunTwice ==
  (run > 1 /\ prev.pc = "done" /\ prev.dry_run /\ dry_run /\ nexternal = 0
     /\ pc \in {"apply", "done"})
    => PlanSet(plans) = prev.plan

C5_Witness ==
  /\ run > 1 /\ prev.pc = "done" /\ prev.dry_run /\ dry_run /\ nexternal = 0
  /\ pc = "done"
  /\ Len(plans) = 2
  /\ \E c \in {C_Imagenes, DEFAULT_OTHER_CATEGORY} :
       IsDir(fs0, Append(Target, c))

(* the parts of the statement of C6 *)
C6_Step ==
  (pc = "start" /\ ~(Target \in Dirs(fs)))
    => (pc' = "invalid" /\ fs' = fs /\ plans' = <<>> /\ result' = NoResult)

C6_Stopped ==
  pc = "invalid"
    => (Target \notin Dirs(fs) /\ fs = fs0 /\ plans = <<>> /\ result = NoResult)

(* C6: on a target that does not exist or is not a directory the plan      *)
(* build fails with the invalid-target error before any item is produced,  *)
(* and the filesystem is unchanged.                                        *)
C6_InvalidTarget == [](C6_Stopped) /\ [][C6_Step]_vars

C6_Witness == pc = "invalid" /\ IsFile(fs, Target) /\ run = 1

(* the parts of the statement of C7 *)
ExpectedCategory(name) ==
  CASE name \in {N_png, N_photo} -> C_Imagenes
    [] name \in {N_pdf, N_pdf1, N_TXT, N_notes} -> C_Documentos
    [] name \in {N_tgz, N_archive} -> C_Comprimidos
    [] name = N_script -> C_Codigo
    [] OTHER -> DEFAULT_OTHER_CATEGORY

(* C7: the plan has exactly one item for each direct child of the target   *)
(* that is not a directory and is not hidden (or is hidden, with           *)
(* include_hidden), and no other item; each item's destination is          *)
(* target/category/name, the category being that of the entry's extension. *)
C7_PlanIsExact ==
  InRun
    => /\ \A child \in Children(fs0, Target) :
            Cardinality({i \in DOMAIN plans : plans[i].source = child})
              = IF /\ fs0[child].kind # "dir"
                   /\ include_hidden \/ Head(Name(child)) # "."
                THEN 1 ELSE 0
       /\ \A i \in DOMAIN plans :
            /\ plans[i].source \in Children(fs0, Target)
            /\ plans[i].category = ExpectedCategory(Name(plans[i].source))
            /\ plans[i].destination =
                 Target \o <<plans[i].category, Name(plans[i].source)>>

C7_Witness ==
  /\ pc = "apply"
  /\ include_hidden
  /\ IsFile(fs0, Append(Target, N_env))
  /\ IsDir(fs0, Append(Target, N_sub))
  /\ IsFile(fs0, Append(Target, N_TXT))
  /\ \E i \in DOMAIN plans : plans[i].source = Append(Target, N_env)

(* the parts of the statement of C8 *)
C8_Listed(k) ==
  \E j \in DOMAIN CATEGORIES[k].exts :
    extension \in CaseVariants(CATEGORIES[k].exts[j])

C8_NoOverlap ==
  \A k1, k2 \in DOMAIN CATEGORIES :
    \A j1 \in DOMAIN CATEGORIES[k1].exts, j2 \in DOMAIN CATEGORIES[k2].exts :
      CATEGORIES[k1].exts[j1] = CATEGORIES[k2].exts[j2] => (k1 = k2 /\ j1 = j2)

(* C8: infer_category_from_extension returns, for every extension of a     *)
(* category's list in any mix of upper and lower case, that category, and  *)
(* "Otros" for any other extension, the empty one included; no extension   *)
(* is in two categories' lists.                                            *)
C8_Classify ==
  category # NoResult
    => /\ \A k \in DOMAIN CATEGORIES : C8_Listed(k) => category = CATEGORIES[k].name
       /\ (\A k \in DOMAIN CATEGORIES : ~C8_Listed(k))
            => category = DEFAULT_OTHER_CATEGORY
       /\ extension \in {<<".","J","P","G">>, <<".","j","p","g">>}
            => category = C_Imagenes
       /\ extension = <<>> => category = <<"O","t","r","o","s">>
       /\ C8_NoOverlap

C8_Witness == extension = <<".","J","P","G">> /\ category = C_Imagenes

(* the parts of the statement of C9 *)
MoveCannotSucceed ==
  \/ ~Exists(fs, plans[idx].source)
  \/ IsFile(fs, Parent(plans[idx].destination))

C9_Step ==
  (pc = "apply" /\ ~dry_run /\ idx <= Len(plans) /\ nexternal' = nexternal
     /\ MoveCannotSucceed)
    => /\ pc' = "failed"
       /\ result' = NoResult
       /\ idx' = idx /\ moved_count' = moved_count
       /\ Files(fs') = Files(fs)
       /\ \A p \in Files(fs) : fs'[p] = fs[p]

C9_Stopped ==
  pc = "failed"
    => /\ ~dry_run
       /\ result = NoResult
       /\ idx <= Len(plans)
       /\ moved_count = idx - 1
       /\ \A i \in Processed : plans[i].source \notin Holders(i)
       /\ \A i \in Pending :
            Holders(i) \subseteq {plans[i].source}

C9_AtMostOnce ==
  (~dry_run /\ InRun) => \A i \in DOMAIN plans : Cardinality(Holders(i)) <= 1

(* C9: a live run stops at the first move that fails.  The step that       *)
(* meets a missing source, or a category path that is a file, moves no     *)
(* file and ends the call in an error, without a returned count; the items *)
(* before it stay moved, the failing item and the later ones are where     *)
(* they were, and no item is ever in two places or half moved.             *)
C9_StopAtFirstFailure ==
  [](C9_Stopped) /\ [](C9_AtMostOnce) /\ [][C9_Step]_vars

C9_Witness ==
  /\ pc = "failed"
  /\ Len(plans) = 5
  /\ idx = 3
  /\ nexternal = 1
  /\ ~Exists(fs, plans[3].source)
  /\ \A i \in 4..5 : Holders(i) = {plans[i].source}

(* C10: after a live run that completed, the plan built again on the same  *)
(* target with the same include_hidden is empty, and a second live run     *)
(* moves nothing and leaves the filesystem as it was.                      *)
C10_RerunIdempotent ==
  (run > 1 /\ prev.pc = "done" /\ ~prev.dry_run /\ InRun)
    => /\ plans = <<>>
       /\ pc # "failed"
       /\ fs = fs0
       /\ (pc = "done" /\ ~dry_run) => result = <<0, EmptyCount>>

C10_Witness ==
  /\ run > 1 /\ prev.pc = "done" /\ ~prev.dry_run /\ prev.moved_count = 1
  /\ pc = "done" /\ ~dry_run
  /\ IsFile(fs, Append(Target, N_env))
  /\ IsDir(fs, Append(Target, N_sub))

====
